---- MODULE Spec2Model ----
(***************************************************************************)
(* A model of rusty-tttm (src/main.rs): the N x N tic-tac-toe board, the   *)
(* move-history decoder parse_moves, the evaluator check_winner/evaluate,  *)
(* and the alpha-beta search minmax, run as a machine with an explicit     *)
(* call stack so that every recursive call and return is a step.           *)
(***************************************************************************)
EXTENDS Integers, Sequences, FiniteSets, TLC

VARIABLES
    req_size,      \* params.size of the request
    req_moves,     \* params.moves of the request, a sequence of characters
    size,          \* TicTacToe.size
    board,         \* TicTacToe.board: [0..size-1 -> [0..size-1 -> Cell]]
    current_turn,  \* TicTacToe.current_turn
    rest,          \* the split('_') iterator of parse_moves: [done, s]
    parse_err,     \* the Err of parse_moves, "" while there is none
    pc,            \* where the handler is
    callarg,       \* the arguments of the minmax call being entered
    stack,         \* the minmax activation records, innermost last
    retval,        \* what the last minmax call returned
    playing,       \* params.playing as read by get_move
    response,      \* the text get_move answers with
    applied,       \* history: the moves parse_moves has placed, in order
    lateMove,      \* history: a move was placed on a board that already had a full line
    pruned         \* history: some loop of this search ended in a cutoff

vars == <<req_size, req_moves, size, board, current_turn, rest, parse_err, pc, callarg,
          stack, retval, playing, response, applied, lateMove, pruned>>

\* --------------------------------------------------------------- parameters

\* The largest board side of the model: the protocol's default grid.
DefaultSize == 3

\* The most tokens in a request's move history.
MaxTokens == 2

\* ------------------------------------------------------------- board model

X == "X"
O == "O"
None == "None"
Player == {X, O}
Cell == {None, X, O}

I32Min == -2147483647 - 1
I32Max == 2147483647

Idx(n) == 0 .. (n - 1)

\* TicTacToe::new: an empty size x size grid, X to move; it never fails.
New(n) == [size |-> n,
           board |-> [r \in Idx(n) |-> [c \in Idx(n) |-> None]],
           current_turn |-> X]

Other(p) == IF p = X THEN O ELSE X

Place(b, r, c, v) == [b EXCEPT ![r][c] = v]

is_full(b, n) == \A r \in Idx(n) : \A c \in Idx(n) : b[r][c] # None

\* ScanLines without the column checks.
RECURSIVE ScanLinesRowsOnly(_, _, _)
ScanLinesRowsOnly(b, n, i) ==
    IF i >= n THEN None
    ELSE IF \A c \in Idx(n) : b[i][c] = X THEN X
    ELSE IF \A c \in Idx(n) : b[i][c] = O THEN O
    ELSE ScanLinesRowsOnly(b, n, i + 1)

\* The result of the row and column checks of check_winner for i, i+1, ...
RECURSIVE ScanLines(_, _, _)
ScanLines(b, n, i) ==
    IF i >= n THEN None
    ELSE IF \A c \in Idx(n) : b[i][c] = X THEN X
    ELSE IF \A c \in Idx(n) : b[i][c] = O THEN O
    ELSE IF \A j \in Idx(n) : b[j][i] = X THEN X
    ELSE IF \A j \in Idx(n) : b[j][i] = O THEN O
    ELSE ScanLines(b, n, i + 1)

\* check_winner without the anti-diagonal checks.
check_winner_no_anti(b, n) ==
    LET w == ScanLines(b, n, 0) IN
    IF w # None THEN w
    ELSE IF \A i \in Idx(n) : b[i][i] = X THEN X
    ELSE IF \A i \in Idx(n) : b[i][i] = O THEN O
    ELSE None

check_winner(b, n) ==
    LET w == ScanLines(b, n, 0) IN
    IF w # None THEN w
    ELSE IF \A i \in Idx(n) : b[i][i] = X THEN X
    ELSE IF \A i \in Idx(n) : b[i][i] = O THEN O
    ELSE IF \A i \in Idx(n) : b[i][n - 1 - i] = X THEN X
    ELSE IF \A i \in Idx(n) : b[i][n - 1 - i] = O THEN O
    ELSE None

evaluate(b, n) ==
    LET w == check_winner(b, n) IN
    IF w = X THEN 1 ELSE IF w = O THEN -1 ELSE 0

\* available_moves: the empty cells in row-major order, from cell k on.
RECURSIVE MovesFrom(_, _, _)
MovesFrom(b, n, k) ==
    IF k >= n * n THEN <<>>
    ELSE LET r == k \div n
             c == k % n
         IN  IF b[r][c] = None
             THEN <<(<<r, c>>)>> \o MovesFrom(b, n, k + 1)
             ELSE MovesFrom(b, n, k + 1)

available_moves(b, n) == MovesFrom(b, n, 0)

Max(a, b) == IF a >= b THEN a ELSE b
Min(a, b) == IF a <= b THEN a ELSE b

\* ------------------------------------------------------------ move decoder

Digits == <<"0", "1", "2", "3", "4", "5", "6", "7", "8", "9">>

IsDigit(ch) == \E d \in 1..Len(Digits) : Digits[d] = ch
DigitVal(ch) == (CHOOSE d \in 1..Len(Digits) : Digits[d] = ch) - 1

\* The index of the first d in s, 0 when there is none.
RECURSIVE FindFrom(_, _, _)
FindFrom(s, d, i) ==
    IF i > Len(s) THEN 0
    ELSE IF s[i] = d THEN i
    ELSE FindFrom(s, d, i + 1)

Find(s, d) == FindFrom(s, d, 1)

\* str::split(d) collected: the pieces between the delimiters; a string
\* without delimiter, the empty string included, is one piece.
RECURSIVE Split(_, _)
Split(s, d) ==
    LET k == Find(s, d) IN
    IF k = 0 THEN <<s>>
    ELSE <<SubSeq(s, 1, k - 1)>> \o Split(SubSeq(s, k + 1, Len(s)), d)

\* Split::next on the iterator it: the piece it yields and the iterator after.
SplitNext(it, d) ==
    LET k == Find(it.s, d) IN
    IF k = 0 THEN [piece |-> it.s, it |-> [done |-> TRUE, s |-> <<>>]]
    ELSE [piece |-> SubSeq(it.s, 1, k - 1),
          it |-> [done |-> FALSE, s |-> SubSeq(it.s, k + 1, Len(it.s))]]

\* The value of a string of digits, most significant first.
RECURSIVE DigitsVal(_, _)
DigitsVal(s, acc) ==
    IF s = <<>> THEN acc ELSE DigitsVal(Tail(s), 10 * acc + DigitVal(Head(s)))

\* str::parse::<usize>: digits after an optional "+"; -1 stands for Err.
ParseUsize(s) ==
    LET ds == IF s # <<>> /\ Head(s) = "+" THEN Tail(s) ELSE s IN
    IF ds = <<>> \/ \E i \in 1..Len(ds) : ~IsDigit(ds[i]) THEN -1
    ELSE DigitsVal(ds, 0)

\* Decode asking for at least three fields instead of exactly three.
DecodeAtLeastThree(mv, b, n) ==
    LET parts == Split(mv, "-") IN
    IF Len(parts) < 3 THEN [err |-> "Invalid move format"]
    ELSE IF parts[1] # <<"X">> /\ parts[1] # <<"O">> THEN [err |-> "Invalid player"]
    ELSE IF ParseUsize(parts[2]) = -1 THEN [err |-> "Invalid row"]
    ELSE IF ParseUsize(parts[3]) = -1 THEN [err |-> "Invalid column"]
    ELSE LET player == parts[1][1]
             row == ParseUsize(parts[2])
             col == ParseUsize(parts[3])
         IN  IF row >= n \/ col >= n THEN [err |-> "Move out of bounds"]
             ELSE IF b[row][col] # None THEN [err |-> "Cell already taken"]
             ELSE [err |-> "", player |-> player, row |-> row, col |-> col]

\* Decode without the check that the cell is free.
DecodeOverwriting(mv, b, n) ==
    LET parts == Split(mv, "-") IN
    IF Len(parts) # 3 THEN [err |-> "Invalid move format"]
    ELSE IF parts[1] # <<"X">> /\ parts[1] # <<"O">> THEN [err |-> "Invalid player"]
    ELSE IF ParseUsize(parts[2]) = -1 THEN [err |-> "Invalid row"]
    ELSE IF ParseUsize(parts[3]) = -1 THEN [err |-> "Invalid column"]
    ELSE LET player == parts[1][1]
             row == ParseUsize(parts[2])
             col == ParseUsize(parts[3])
         IN  IF row >= n \/ col >= n THEN [err |-> "Move out of bounds"]
             ELSE [err |-> "", player |-> player, row |-> row, col |-> col]

\* What one turn of the loop of parse_moves does with the token mv on the
\* board b of side n: the Err it returns, or the move it places.
Decode(mv, b, n) ==
    LET parts == Split(mv, "-") IN
    IF Len(parts) # 3 THEN [err |-> "Invalid move format"]
    ELSE IF parts[1] # <<"X">> /\ parts[1] # <<"O">> THEN [err |-> "Invalid player"]
    ELSE IF ParseUsize(parts[2]) = -1 THEN [err |-> "Invalid row"]
    ELSE IF ParseUsize(parts[3]) = -1 THEN [err |-> "Invalid column"]
    ELSE LET player == parts[1][1]
             row == ParseUsize(parts[2])
             col == ParseUsize(parts[3])
         IN  IF row >= n \/ col >= n THEN [err |-> "Move out of bounds"]
             ELSE IF b[row][col] # None THEN [err |-> "Cell already taken"]
             ELSE [err |-> "", player |-> player, row |-> row, col |-> col]

\* get_move constructs the board and calls parse_moves.
Construct ==
    /\ pc = "start"
    /\ size' = New(req_size).size
    /\ board' = New(req_size).board
    /\ current_turn' = New(req_size).current_turn
    /\ rest' = [done |-> FALSE, s |-> req_moves]
    /\ pc' = "parse"
    /\ UNCHANGED <<req_size, req_moves, parse_err, callarg, stack, retval,
                   playing, response, applied, lateMove, pruned>>

\* The loop of parse_moves takes a token and places its move.
ParseApply ==
    /\ pc = "parse"
    /\ ~rest.done
    /\ LET nx == SplitNext(rest, "_")
           d == Decode(nx.piece, board, size)
       IN  /\ d.err = ""
           /\ board' = Place(board, d.row, d.col, d.player)
           /\ current_turn' = Other(d.player)
           /\ rest' = nx.it
           /\ applied' = Append(applied, <<d.player, d.row, d.col>>)
           /\ lateMove' = (lateMove \/ check_winner(board, size) # None)
    /\ UNCHANGED <<req_size, req_moves, size, parse_err, pc, callarg, stack,
                   retval, playing, response, pruned>>

\* The loop of parse_moves takes a token and returns an Err.
ParseReject ==
    /\ pc = "parse"
    /\ ~rest.done
    /\ LET nx == SplitNext(rest, "_")
           d == Decode(nx.piece, board, size)
       IN  /\ d.err # ""
           /\ parse_err' = d.err
           /\ rest' = nx.it
    /\ pc' = "failed"
    /\ UNCHANGED <<req_size, req_moves, size, board, current_turn, callarg, stack,
                   retval, playing, response, applied, lateMove, pruned>>

\* The iterator is exhausted: parse_moves returns Ok(()).
ParseEnd ==
    /\ pc = "parse"
    /\ rest.done
    /\ pc' = "parsed"
    /\ UNCHANGED <<req_size, req_moves, size, board, current_turn, rest, parse_err,
                   callarg, stack, retval, playing, response, applied, lateMove, pruned>>

\* get_move answers a parse_moves error; the board is dropped unused.
RespondParseError ==
    /\ pc = "failed"
    /\ response' = <<"Error">>
    /\ pc' = "done"
    /\ UNCHANGED <<req_size, req_moves, size, board, current_turn, rest, parse_err,
                   callarg, stack, retval, playing, applied, lateMove, pruned>>

PlayingValues == {"X", "O", "Z"}

\* get_move reads params.playing and starts the search with the full
\* window.  params.moves is not read again: the history is dropped here.
ReadPlaying ==
    /\ pc = "parsed"
    /\ \E p \in PlayingValues :
        /\ p \in Player
        /\ playing' = p
        /\ callarg' = [player |-> p, alpha |-> I32Min, beta |-> I32Max]
    /\ req_moves' = <<>>
    /\ applied' = <<>>
    /\ lateMove' = FALSE
    /\ pc' = "call"
    /\ UNCHANGED <<req_size, size, board, current_turn, rest, parse_err, stack,
                   retval, response, pruned>>

\* get_move answers an invalid params.playing.
RejectPlaying ==
    /\ pc = "parsed"
    /\ \E p \in PlayingValues :
        /\ p \notin Player
        /\ playing' = p
    /\ response' = <<"Error">>
    /\ pc' = "done"
    /\ UNCHANGED <<req_size, req_moves, size, board, current_turn, rest, parse_err,
                   callarg, stack, retval, applied, lateMove, pruned>>

Decoder == Construct \/ ParseApply \/ ParseReject \/ ParseEnd
              \/ RespondParseError \/ ReadPlaying \/ RejectPlaying

\* ---------------------------------------------------------- minmax machine

NoMove == <<>>

Top == stack[Len(stack)]
SetTop(f) == [stack EXCEPT ![Len(stack)] = f]
Pop == SubSeq(stack, 1, Len(stack) - 1)

\* The terminal test without the full-board case.
IsTerminalWonOnly(b, n) == evaluate(b, n) = 1 \/ evaluate(b, n) = -1

\* The terminal test of minmax (lines 178-182).
IsTerminal(b, n) == evaluate(b, n) = 1 \/ evaluate(b, n) = -1 \/ is_full(b, n)

\* Entry of a minmax call: the terminal test, or the set-up of the loop.
MinmaxEnter ==
    /\ pc = "call"
    /\ LET frame == [player |-> callarg.player,
                     alpha |-> callarg.alpha,
                     beta |-> callarg.beta,
                     best_eval |-> IF callarg.player = X THEN I32Min ELSE I32Max,
                     best_move |-> NoMove,
                     todo |-> available_moves(board, size),
                     cur |-> NoMove,
                     entry |-> [board |-> board, size |-> size,
                                current_turn |-> current_turn]]
       IN  /\ stack' = Append(stack, frame)
           /\ IF IsTerminal(board, size)
              THEN /\ retval' = [eval |-> evaluate(board, size), move |-> NoMove]
                   /\ pc' = "return"
              ELSE /\ retval' = retval
                   /\ pc' = "loop"
    /\ UNCHANGED <<req_size, req_moves, size, board, current_turn, rest, parse_err, callarg,
                   playing, response, applied, lateMove, pruned>>

\* One turn of the for loop of player p: the loop ends, or the next move is
\* placed and the recursive call is made.
LoopStep(p) ==
    /\ pc = "loop"
    /\ Top.player = p
    /\ IF Top.todo = <<>>
       THEN /\ retval' = [eval |-> Top.best_eval, move |-> Top.best_move]
            /\ pc' = "return"
            /\ UNCHANGED <<board, stack, callarg>>
       ELSE LET mv == Head(Top.todo) IN
            /\ board' = Place(board, mv[1], mv[2], p)
            /\ stack' = SetTop([Top EXCEPT !.todo = Tail(Top.todo), !.cur = mv])
            /\ callarg' = [player |-> Other(p), alpha |-> Top.alpha, beta |-> Top.beta]
            /\ pc' = "call"
            /\ retval' = retval
    /\ UNCHANGED <<req_size, req_moves, size, current_turn, rest, parse_err,
                   playing, response, applied, lateMove, pruned>>

MaxStep == LoopStep(X)
MinStep == LoopStep(O)

\* MaxUpdate taking an equal evaluation as an improvement.
MaxUpdateOnTie(f, eval) ==
    LET better == eval >= f.best_eval
        a == Max(f.alpha, eval)
    IN  [frame |-> [f EXCEPT !.best_eval = IF better THEN eval ELSE @,
                             !.best_move = IF better THEN f.cur ELSE @,
                             !.alpha = a,
                             !.cur = NoMove],
         break |-> f.beta <= a]

\* The caller's frame after the recursive call returned eval to the
\* maximizing loop: best so far, alpha, and whether the loop breaks.
MaxUpdate(f, eval) ==
    LET better == eval > f.best_eval
        a == Max(f.alpha, eval)
    IN  [frame |-> [f EXCEPT !.best_eval = IF better THEN eval ELSE @,
                             !.best_move = IF better THEN f.cur ELSE @,
                             !.alpha = a,
                             !.cur = NoMove],
         break |-> f.beta <= a]

\* MinUpdate with the comparison of the maximizing loop.
MinUpdateCopied(f, eval) ==
    LET better == eval > f.best_eval
        bt == Min(f.beta, eval)
    IN  [frame |-> [f EXCEPT !.best_eval = IF better THEN eval ELSE @,
                             !.best_move = IF better THEN f.cur ELSE @,
                             !.beta = bt,
                             !.cur = NoMove],
         break |-> bt <= f.alpha]

\* The caller's frame after the recursive call returned eval to the
\* minimizing loop.
MinUpdate(f, eval) ==
    LET better == eval < f.best_eval
        bt == Min(f.beta, eval)
    IN  [frame |-> [f EXCEPT !.best_eval = IF better THEN eval ELSE @,
                             !.best_move = IF better THEN f.cur ELSE @,
                             !.beta = bt,
                             !.cur = NoMove],
         break |-> bt <= f.alpha]

\* Undo clearing the cell with row and column exchanged.
UndoTransposed(b, mv) == Place(b, mv[2], mv[1], None)

\* The speculative placement is cleared (lines 201, 231).
Undo(b, mv) == Place(b, mv[1], mv[2], None)

\* A recursive call returns to the loop of player p.
Resume(p) ==
    /\ pc = "return"
    /\ Len(stack) >= 2
    /\ stack[Len(stack) - 1].player = p
    /\ LET f == stack[Len(stack) - 1]
           u == IF p = X THEN MaxUpdate(f, retval.eval) ELSE MinUpdate(f, retval.eval)
       IN  /\ board' = Undo(board, f.cur)
           /\ stack' = [Pop EXCEPT ![Len(stack) - 1] = u.frame]
           /\ IF u.break
              THEN /\ retval' = [eval |-> u.frame.best_eval, move |-> u.frame.best_move]
                   /\ pc' = "return"
              ELSE /\ retval' = retval
                   /\ pc' = "loop"
           /\ pruned' = (pruned \/ (u.break /\ f.todo # <<>>))
    /\ UNCHANGED <<req_size, req_moves, size, current_turn, rest, parse_err, callarg,
                   playing, response, applied, lateMove>>

MaxResume == Resume(X)
MinResume == Resume(O)

\* The outermost call returns to get_move, which formats the answer.
Respond ==
    /\ pc = "return"
    /\ Len(stack) = 1
    /\ stack' = <<>>
    /\ response' = IF retval.move # NoMove
                   THEN <<"Move", playing, retval.move[1], retval.move[2]>>
                   ELSE <<"Sorry">>
    /\ pc' = "done"
    /\ UNCHANGED <<req_size, req_moves, size, board, current_turn, rest, parse_err, callarg,
                   retval, playing, applied, lateMove, pruned>>

Search == MinmaxEnter \/ MaxStep \/ MinStep \/ MaxResume \/ MinResume \/ Respond

\* ----------------------------------------------------------------- requests

\* The tokens a history is made of: every well-formed move of the largest
\* board, moves beyond it, a move written with a sign and a leading zero,
\* and tokens parse_moves rejects.
\* The text of the move of p at row r, column c.
TokenOf(p, r, c) == <<p, "-", Digits[r + 1], "-", Digits[c + 1]>>

WellFormedTokens ==
    {TokenOf(p, r, c) : p \in Player, r \in Idx(DefaultSize), c \in Idx(DefaultSize)}

FarTokens == {TokenOf(X, DefaultSize, 0), TokenOf(O, 0, DefaultSize)}

SignedTokens == {<<"O", "-", "+", "1", "-", "0", "1">>}

MalformedTokens ==
    {<<>>,
     <<"X", "-", "1">>,
     <<"X", "-", "0", "-", "0", "-", "0">>}

InvalidTokens ==
    {<<"Z", "-", "0", "-", "0">>,
     <<"X", "-", "a", "-", "0">>,
     <<"O", "-", "0", "-">>}

Tokens == WellFormedTokens \cup FarTokens \cup SignedTokens
             \cup MalformedTokens \cup InvalidTokens

\* The tokens of ts joined by the move delimiter.
RECURSIVE Join(_)
Join(ts) ==
    IF ts = <<>> THEN <<>>
    ELSE IF Len(ts) = 1 THEN ts[1]
    ELSE ts[1] \o <<"_">> \o Join(Tail(ts))

\* A request has arrived: get_move is about to construct the board.
Idle ==
    /\ size = 0
    /\ board = <<>>
    /\ current_turn = X
    /\ rest = [done |-> TRUE, s |-> <<>>]
    /\ parse_err = ""
    /\ callarg = [player |-> X, alpha |-> I32Min, beta |-> I32Max]
    /\ stack = <<>>
    /\ retval = [eval |-> 0, move |-> NoMove]
    /\ playing = ""
    /\ response = <<>>
    /\ applied = <<>>
    /\ lateMove = FALSE
    /\ pruned = FALSE
    /\ pc = "start"

\* A request of any size the constructor accepts, with a history of up to
\* MaxTokens tokens.
Init ==
    /\ req_size \in 0..DefaultSize
    /\ \E k \in 0..MaxTokens :
         \E h \in [1..k -> Tokens] : req_moves = Join(h)
    /\ Idle

Next == Decoder \/ Search

Spec == Init /\ [][Next]_vars

\* ------------------------------------------------------------ search alone

\* The most empty cells of a board the search is started on directly.
MaxEmpty == 4

Boards(n) == [Idx(n) -> [Idx(n) -> Cell]]

Empties(b, n) == {rc \in Idx(n) \X Idx(n) : b[rc[1]][rc[2]] = None}

\* get_move is about to call minmax(0, player, i32::MIN, i32::MAX) on the
\* board the decoder left.
AtSearch ==
    /\ req_size = size
    /\ req_moves = <<>>
    /\ rest = [done |-> TRUE, s |-> <<>>]
    /\ parse_err = ""
    /\ playing \in Player
    /\ callarg = [player |-> playing, alpha |-> I32Min, beta |-> I32Max]
    /\ stack = <<>>
    /\ retval = [eval |-> 0, move |-> NoMove]
    /\ response = <<>>
    /\ applied = <<>>
    /\ lateMove = FALSE
    /\ pruned = FALSE
    /\ pc = "call"

Holds(b, n, p) == \E rc \in Idx(n) \X Idx(n) : b[rc[1]][rc[2]] = p

\* minmax on any board with few empty cells: every assignment of the
\* cells, as histories of either symbol in any order leave them, the turn
\* as a history leaves it that ends with an O where the board has one.
InitSearch ==
    /\ size \in 1..DefaultSize
    /\ board \in {b \in Boards(size) : Cardinality(Empties(b, size)) <= MaxEmpty}
    /\ current_turn = IF Holds(board, size, O) \/ ~Holds(board, size, X) THEN X ELSE O
    /\ AtSearch

SpecSearch == InitSearch /\ [][Search]_vars

\* minmax on the fresh board of each size.
InitClassic ==
    /\ size \in 1..DefaultSize
    /\ board = New(size).board
    /\ current_turn = New(size).current_turn
    /\ AtSearch

SpecClassic == InitClassic /\ [][Search]_vars

\* ------------------------------------------------------------ games decoded

\* The most moves of an alternating history.
MaxPlies == 5

\* The history of alternating moves, X first, on the cells g in turn.
AlternatingHistory(g) ==
    [i \in 1..Len(g) |-> TokenOf(IF i % 2 = 1 THEN X ELSE O, g[i][1], g[i][2])]

\* A request whose history is alternating play on pairwise distinct cells
\* of the largest board.
InitPlay ==
    /\ req_size \in 1..DefaultSize
    /\ \E k \in 1..MaxPlies :
         \E g \in [1..k -> Idx(DefaultSize) \X Idx(DefaultSize)] :
            /\ \A i, j \in 1..k : i # j => g[i] # g[j]
            /\ req_moves = Join(AlternatingHistory(g))
    /\ Idle

\* The decoder's part of get_move on the histories of alternating play.
SpecPlay == InitPlay /\ [][Decoder]_vars

\* ---------------------------------------------------------- evaluator alone

\* evaluate is about to be applied to a board: any assignment of the cells
\* of any size the constructor accepts.
InitEval ==
    /\ size \in 0..DefaultSize
    /\ board \in Boards(size)
    /\ current_turn \in Player
    /\ req_size = size
    /\ req_moves = <<>>
    /\ rest = [done |-> TRUE, s |-> <<>>]
    /\ parse_err = ""
    /\ playing = ""
    /\ callarg = [player |-> X, alpha |-> I32Min, beta |-> I32Max]
    /\ stack = <<>>
    /\ retval = [eval |-> 0, move |-> NoMove]
    /\ response = <<>>
    /\ applied = <<>>
    /\ lateMove = FALSE
    /\ pruned = FALSE
    /\ pc = "eval"

\* evaluate is applied to the board.
Evaluate ==
    /\ pc = "eval"
    /\ retval' = [eval |-> evaluate(board, size), move |-> NoMove]
    /\ pc' = "evaluated"
    /\ UNCHANGED <<req_size, req_moves, size, board, current_turn, rest, parse_err,
                   callarg, stack, playing, response, applied, lateMove, pruned>>

SpecEval == InitEval /\ [][Evaluate]_vars

\* ------------------------------------------------------------------- lines

\* The cells of the lines of a board of side n.
RowCells(n, i) == {<<i, c>> : c \in Idx(n)}
ColCells(n, i) == {<<r, i>> : r \in Idx(n)}
DiagCells(n) == {<<i, i>> : i \in Idx(n)}
AntiCells(n) == {<<i, n - 1 - i>> : i \in Idx(n)}

LineSets(n) == {RowCells(n, i) : i \in Idx(n)} \cup {ColCells(n, i) : i \in Idx(n)}
                  \cup {DiagCells(n), AntiCells(n)}

Owns(b, L, p) == \A rc \in L : b[rc[1]][rc[2]] = p

HasLine(b, n, p) == \E L \in LineSets(n) : Owns(b, L, p)

\* The lines in the order of the scan: row 0, column 0, row 1, column 1,
\* ..., the main diagonal, the anti-diagonal.
ScanOrder(n) ==
    [k \in 1..(2 * n + 2) |->
        IF k = 2 * n + 1 THEN DiagCells(n)
        ELSE IF k = 2 * n + 2 THEN AntiCells(n)
        ELSE IF k % 2 = 1 THEN RowCells(n, (k - 1) \div 2)
        ELSE ColCells(n, (k - 2) \div 2)]

\* The symbol of the first line of the scan a symbol owns, X being asked
\* first of each line; None when no line is owned.
FirstOwner(b, n) ==
    LET sc == ScanOrder(n)
        owned == {k \in DOMAIN sc : Owns(b, sc[k], X) \/ Owns(b, sc[k], O)}
    IN  IF owned = {} THEN None
        ELSE LET k == CHOOSE j \in owned : \A i \in owned : j <= i
             IN  IF Owns(b, sc[k], X) THEN X ELSE O

\* ------------------------------------------------------- exhaustive minimax

\* The value of plain minimax without pruning: X maximizes, O minimizes,
\* a won or full board is worth its evaluation.
RECURSIVE Exhaustive(_, _, _)
Exhaustive(b, n, p) ==
    IF evaluate(b, n) # 0 \/ Empties(b, n) = {} THEN evaluate(b, n)
    ELSE LET vals == {Exhaustive(Place(b, rc[1], rc[2], p), n, Other(p)) :
                         rc \in Empties(b, n)}
         IN  IF p = X THEN CHOOSE v \in vals : \A w \in vals : v >= w
             ELSE CHOOSE v \in vals : \A w \in vals : v <= w

\* The first empty cell in row-major order whose value is the optimum.
FirstOptimal(b, n, p) ==
    LET best == Exhaustive(b, n, p)
        opt == {rc \in Empties(b, n) :
                   Exhaustive(Place(b, rc[1], rc[2], p), n, Other(p)) = best}
    IN  CHOOSE rc \in opt : \A o \in opt : rc[1] * n + rc[2] <= o[1] * n + o[2]

\* The outermost minmax call is returning to get_move.
TopReturn == pc = "return" /\ Len(stack) = 1

\* ------------------------------------------------------------------ claims

\* C1: on every non-terminal board, minmax with the full window returns the
\* value of exhaustive minimax and the first empty cell in row-major order
\* that has this value.
C1_MinmaxIsExhaustive ==
    (TopReturn /\ evaluate(board, size) = 0 /\ Empties(board, size) # {})
        => /\ retval.eval = Exhaustive(board, size, Top.player)
           /\ retval.move = FirstOptimal(board, size, Top.player)

\* A search that cut branches off and did not answer the first empty cell.
C1_Witness ==
    /\ TopReturn
    /\ evaluate(board, size) = 0
    /\ pruned
    /\ size = DefaultSize
    /\ retval.move # NoMove
    /\ retval.move # Head(available_moves(board, size))

\* C2: whenever a minmax call returns, at any depth and also after a cutoff,
\* cells, size and current_turn are what they were when the call started.
C2_BoardRestored ==
    pc = "return"
        => /\ board = Top.entry.board
           /\ size = Top.entry.size
           /\ current_turn = Top.entry.current_turn

\* A recursive call returns after a cutoff, with moves left untried.
C2_Witness ==
    /\ pc = "return"
    /\ Len(stack) >= 2
    /\ Top.best_move # NoMove
    /\ Top.todo # <<>>
    /\ board = Top.entry.board

\* C3: minmax returns no move exactly on terminal boards; otherwise it
\* returns an empty in-bounds cell and an evaluation of -1, 0 or 1.
C3_MoveIffNotTerminal ==
    TopReturn
        => LET terminal == \/ evaluate(board, size) \in {1, -1}
                           \/ \A rc \in Idx(size) \X Idx(size) : board[rc[1]][rc[2]] # None
           IN  /\ (retval.move = NoMove) <=> terminal
               /\ ~terminal =>
                    /\ retval.move \in Idx(size) \X Idx(size)
                    /\ board[retval.move[1]][retval.move[2]] = None
                    /\ retval.eval \in {-1, 0, 1}

\* A move is returned on a board no alternating play leaves: two more O
\* than X.
C3_Witness ==
    /\ TopReturn
    /\ retval.move # NoMove
    /\ LET count(p) == Cardinality({rc \in Idx(size) \X Idx(size) :
                                      board[rc[1]][rc[2]] = p})
       IN  count(O) >= count(X) + 2

\* C4 as stated: on every board evaluate is +1 exactly when X owns a line
\* and -1 exactly when O owns a line.
C4_EvaluateIffLine ==
    pc = "evaluated"
        => /\ (retval.eval = 1) <=> HasLine(board, size, X)
           /\ (retval.eval = -1) <=> HasLine(board, size, O)

\* C4 amended: the two equivalences hold on every board that does not hold
\* lines of both symbols; on a board that does, evaluate answers for the
\* line the scan meets first.
C4_EvaluateFirstLine ==
    pc = "evaluated"
        => /\ ~(HasLine(board, size, X) /\ HasLine(board, size, O))
                => /\ (retval.eval = 1) <=> HasLine(board, size, X)
                   /\ (retval.eval = -1) <=> HasLine(board, size, O)
           /\ (retval.eval = 1) <=> (FirstOwner(board, size) = X)
           /\ (retval.eval = -1) <=> (FirstOwner(board, size) = O)

\* A board with lines of both symbols on which evaluate answers -1.
C4_Witness ==
    /\ pc = "evaluated"
    /\ size = DefaultSize
    /\ HasLine(board, size, X)
    /\ HasLine(board, size, O)
    /\ retval.eval = -1

\* C5: on the empty 3 x 3 board with X to move, minmax with the full window
\* returns the evaluation 0.
C5_EmptyBoardDraw ==
    (TopReturn /\ size = 3 /\ Top.player = X /\ board = New(3).board)
        => retval.eval = 0

\* The search of the empty 3 x 3 board for X has returned.
C5_Witness ==
    /\ TopReturn
    /\ size = 3
    /\ Top.player = X
    /\ board = New(3).board
    /\ pruned
    /\ retval.eval = 0
    /\ retval.move = <<0, 0>>

\* ----------------------------------------------------------- decoder claims

\* The move a token of the model's histories writes down.
MoveOf(tok) ==
    IF tok \in SignedTokens THEN <<O, 1, 1>>
    ELSE CHOOSE m \in Player \X Idx(DefaultSize + 1) \X Idx(DefaultSize + 1) :
            TokenOf(m[1], m[2], m[3]) = tok

MoveTokens == WellFormedTokens \cup FarTokens \cup SignedTokens

\* The tokens of the request.
ReqTokens == Split(req_moves, "_")

\* The board of side n that holds the moves of the first k tokens of toks
\* and nothing else.
HoldsExactly(b, n, toks, k) ==
    \A r \in Idx(n), c \in Idx(n) :
        IF \E j \in 1..k : MoveOf(toks[j])[2] = r /\ MoveOf(toks[j])[3] = c
        THEN \E j \in 1..k : MoveOf(toks[j]) = <<b[r][c], r, c>>
        ELSE b[r][c] = None

\* parse_moves has returned.
Returned == pc \in {"parsed", "failed"}

\* C6 as stated: when parse_moves fails on a token without three fields the
\* board and the turn are what they were before the call.
C6_NoPartialMutation ==
    (pc = "failed" /\ parse_err = "Invalid move format")
        => /\ board = New(size).board
           /\ current_turn = New(size).current_turn

\* C6 amended: the token without three fields changes nothing, and the
\* moves of the tokens before it stay placed, the turn as the last of them
\* set it: the board is as before the call only when that token is the first.
C6_PrefixStaysPlaced ==
    (pc = "failed" /\ parse_err = "Invalid move format")
        => LET k == Len(applied) + 1 IN
           /\ k <= Len(ReqTokens)
           /\ Len(Split(ReqTokens[k], "-")) # 3
           /\ \A j \in 1..(k - 1) : ReqTokens[j] \in MoveTokens
           /\ HoldsExactly(board, size, ReqTokens, k - 1)
           /\ current_turn = IF k = 1 THEN X ELSE Other(MoveOf(ReqTokens[k - 1])[1])
           /\ (board = New(size).board /\ current_turn = X) <=> (k = 1)

\* parse_moves failed on a malformed token that follows a placed move.
C6_Witness ==
    /\ pc = "failed"
    /\ parse_err = "Invalid move format"
    /\ Len(applied) >= 1
    /\ board # New(size).board
    /\ ReqTokens[Len(applied) + 1] = <<"X", "-", "1">>

\* C7: decoding the empty move string on a fresh board of size >= 1
\* succeeds and leaves every cell empty with X to move.
C7_EmptyHistoryAccepted ==
    (Returned /\ req_moves = <<>> /\ req_size >= 1)
        => /\ pc = "parsed"
           /\ board = New(req_size).board
           /\ current_turn = X

C9_NoBoardOfSizeZero ==
    pc \in {"parse", "parsed", "failed", "call", "loop", "return"} => size >= 1

\* C10: a history of well-formed tokens is decoded whatever the order of
\* its symbols: it fails at the first token that is out of bounds or names
\* a cell an earlier token took, and without such a token it succeeds and
\* the board holds exactly the moves of the tokens.
C10_DecodedAsWritten ==
    (Returned /\ \A j \in 1..Len(ReqTokens) : ReqTokens[j] \in WellFormedTokens \cup FarTokens)
        => LET mv(j) == MoveOf(ReqTokens[j])
               far(j) == mv(j)[2] >= size \/ mv(j)[3] >= size
               taken(j) == \E i \in 1..(j - 1) : mv(i)[2] = mv(j)[2] /\ mv(i)[3] = mv(j)[3]
               bad == {j \in 1..Len(ReqTokens) : far(j) \/ taken(j)}
           IN  IF bad = {}
               THEN /\ pc = "parsed"
                    /\ HoldsExactly(board, size, ReqTokens, Len(ReqTokens))
               ELSE LET j0 == CHOOSE j \in bad : \A i \in bad : j <= i IN
                    /\ pc = "failed"
                    /\ Len(applied) = j0 - 1
                    /\ parse_err = IF far(j0) THEN "Move out of bounds"
                                   ELSE "Cell already taken"

\* Two moves of the same symbol are decoded.
C10_Witness ==
    /\ pc = "parsed"
    /\ Len(applied) = 2
    /\ applied[1][1] = applied[2][1]
    /\ board[applied[1][2]][applied[1][3]] = applied[1][1]
    /\ board[applied[2][2]][applied[2][3]] = applied[2][1]

====
